---- MODULE Spec2Model ----
(***************************************************************************)
(* Model of the MongoChangeTrigger node                                    *)
(* (src/nodes/MongoChangeTrigger/MongoChangeTrigger.node.ts).              *)
(*                                                                         *)
(* trigger() is an async function: every `await` is a point where other    *)
(* JavaScript tasks may run.  The 'change' listener is a synchronous       *)
(* function: it runs to completion on the single JavaScript thread.  The   *)
(* variable `running` is that thread: a task starts only when it is free.  *)
(***************************************************************************)
EXTENDS Integers, Sequences, FiniteSets, TLC

\* ------------------------------------------------------------------ bounds
MaxEvents == 3        \* change events delivered to the listener in one run
MaxInvocations == 2   \* times the host invokes the teardown handle

\* ------------------------------------------------- optional JavaScript values
\* `undefined` is the empty tuple, a present value v is <<v>>.
Undefined == <<>>
Some(v) == <<v>>
IsDefined(o) == o # <<>>
Get(o) == o[1]
\* a || b for an optional a
OrElse(o, d) == IF IsDefined(o) THEN Get(o) ELSE d

\* A JavaScript string value and a JavaScript number value; === compares type
\* and value, so Str("5") and Num("5") differ.
Str(s) == [t |-> "string", v |-> s]
Num(s) == [t |-> "number", v |-> s]

\* ------------------------------------------------------------------ errors
\* Texts in which String.prototype.includes("not authorized") finds a match.
NotAuthorizedTexts == {"not authorized on shop to execute command", "not authorized"}

\* A message is a template of the source with the values interpolated in it.
\* No template of the source holds the lower-case text "not authorized"
\* itself ("Not authorized ..." starts with a capital), so includes() finds it
\* only inside an interpolated value.
Msg(tmpl, args) == [tmpl |-> tmpl, args |-> args]
IncludesNotAuthorized(m) == \E k \in 1..Len(m.args) : m.args[k] \in NotAuthorizedTexts

\* new NodeApiError(node, errorResponse, { message })
\* errorResponse is Some(error) when an error object is passed, Undefined when
\* the literal { message } is.
NodeApiError(errorResponse, message) ==
    [name |-> "NodeApiError", message |-> message, codeName |-> Undefined,
     cause |-> errorResponse]

\* Errors the MongoDB driver may reject a command with.
DriverError(text, codeName) ==
    [name |-> "MongoServerError", message |-> Msg("%s", <<text>>),
     codeName |-> codeName, cause |-> Undefined]
DriverErrors ==
    { DriverError("not authorized on shop to execute command", Some("Unauthorized")),
      DriverError("command failed", Some("Unauthorized")),
      DriverError("not authorized on shop to execute command", Undefined),
      DriverError("connection timed out", Undefined) }

\* error.message?.includes("not authorized") || error.codeName === "Unauthorized"
IsAuthorizationFailure(error) ==
    IncludesNotAuthorized(error.message) \/ error.codeName = Some("Unauthorized")

NoError == [name |-> "none", message |-> Msg("", <<>>), codeName |-> Undefined,
            cause |-> Undefined]

\* Message templates of the source.
TNoCredentials == "No credentials were returned!"
TConnect == "Failed to connect to MongoDB. Please check your credentials and connection settings."
TDbNotAuthorized == "Not authorized to access database \"%s\". Check if the database exists and your credentials have sufficient permissions."
TDbNoAccess == "Database \"%s\" could not be accessed: %s"
TNotFound == "Collection \"%s\" does not exist in database \"%s\"."
TListNotAuthorized == "Not authorized to list collections in \"%s\". Check if your credentials have sufficient permissions."
TListFailed == "Failed to verify if collection \"%s\" exists."
TVerifyFailed == "Failed to verify database or collection existence."

\* catch of `await client.connect()`
ConnectCatch(error) == NodeApiError(Some(error), Msg(TConnect, <<>>))

\* catch of `await db.command({ ping: 1 })`
PingCatch(error, database) ==
    IF IsAuthorizationFailure(error)
    THEN NodeApiError(Undefined, Msg(TDbNotAuthorized, <<database>>))
    ELSE NodeApiError(Undefined, Msg(TDbNoAccess, <<database>> \o error.message.args))

\* the error thrown inside the try when listCollections returns no match
ZeroMatchError(database, collectionName) ==
    NodeApiError(Undefined, Msg(TNotFound, <<collectionName, database>>))

\* catch around the listCollections lookup and the length check
ListCatch(error, database, collectionName) ==
    IF IsAuthorizationFailure(error)
    THEN NodeApiError(Undefined, Msg(TListNotAuthorized, <<database>>))
    ELSE NodeApiError(Some(error), Msg(TListFailed, <<collectionName>>))

\* Mutant: the test `error.name === 'NodeApiError'` dropped, every error wrapped.
OuterCatchAlwaysWraps(error) ==
    NodeApiError(Some(error), Msg(TVerifyFailed, <<>>))

\* outer catch of the validation block
OuterCatch(error) ==
    IF error.name = "NodeApiError" THEN error
    ELSE NodeApiError(Some(error), Msg(TVerifyFailed, <<>>))

\* ------------------------------------------------------------ configuration
\* Strings the code splits or trims are sequences of one-character strings;
\* a field name is such a sequence too.
FStatus == <<"s">>
FPrio == <<"p">>
Wildcard == <<"*">>

AllOperationTypes == {"insert", "update", "replace", "delete", "drop", "rename"}

\* One entry of the 'filters.filterValues' parameter.
Filter(field, operator, value) == [field |-> field, operator |-> operator, value |-> value]

\* The node parameters read by getNodeParameter.
Config(database, collectionName, fields, operationTypes, filters) ==
    [database |-> database, collectionName |-> collectionName, fields |-> fields,
     operationTypes |-> operationTypes, filters |-> filters]

\* --------------------------------------------------------- pipeline builder
\* String.prototype.split(','): the pieces between the commas.
RECURSIVE SplitFrom(_, _, _)
SplitFrom(s, k, piece) ==
    IF k > Len(s) THEN <<piece>>
    ELSE IF s[k] = "," THEN <<piece>> \o SplitFrom(s, k + 1, <<>>)
    ELSE SplitFrom(s, k + 1, Append(piece, s[k]))
Split(s) == SplitFrom(s, 1, <<>>)

\* String.prototype.trim(): leading and trailing blanks removed.
RECURSIVE TrimLeft(_)
TrimLeft(s) == IF s # <<>> /\ Head(s) = " " THEN TrimLeft(Tail(s)) ELSE s
RECURSIVE TrimRight(_)
TrimRight(s) ==
    IF s # <<>> /\ s[Len(s)] = " " THEN TrimRight(SubSeq(s, 1, Len(s) - 1)) ELSE s
Trim(s) == TrimRight(TrimLeft(s))

\* fields.split(',').map(field => field.trim())
FieldList(fields) == [k \in 1..Len(Split(fields)) |-> Trim(Split(fields)[k])]

\* { $match: { operationType: { $in: operationTypes } } }
OperationStage(operationTypes) == [stage |-> "operationTypeIn", ops |-> operationTypes,
                                   fieldList |-> <<>>]
\* { $match: { $or: [ { operationType: { $ne: 'update' } },
\*                    { $and: [ update, updatedFields exists, $or: fieldList ] } ] } }
FieldStage(fieldList) == [stage |-> "updateTouchesField", ops |-> {},
                          fieldList |-> fieldList]

\* Mutant: `operationTypes.length <= 6`.
BuildPipelineOffByOne(c) ==
    (IF Cardinality(c.operationTypes) > 0 /\  Cardinality(c.operationTypes) <= 6
     THEN <<OperationStage(c.operationTypes)>> ELSE <<>>)
    \o
    (IF c.fields # Wildcard /\ "update" \in c.operationTypes
     THEN <<FieldStage(FieldList(c.fields))>> ELSE <<>>)

\* The pipeline handed to collection.watch().
BuildPipeline(c) ==
    (IF Cardinality(c.operationTypes) > 0 /\ Cardinality(c.operationTypes) < 6
     THEN <<OperationStage(c.operationTypes)>> ELSE <<>>)
    \o
    (IF c.fields # Wildcard /\ "update" \in c.operationTypes
     THEN <<FieldStage(FieldList(c.fields))>> ELSE <<>>)

\* ------------------------------------------------------------ change events
\* A ChangeStreamDocument.  Every property but operationType is optional.
\* updatedFields is a function from field names to values, removedFields a
\* sequence of field names, a document a set of <<key, value>> pairs.
ChangeEvent(operationType, wallTime, ns, documentKey, fullDocument, updateDescription, to) ==
    [operationType |-> operationType, wallTime |-> wallTime, ns |-> ns,
     documentKey |-> documentKey, fullDocument |-> fullDocument,
     updateDescription |-> updateDescription, to |-> to]

EmptyObject == {}
NoFields == <<>>

\* A value that is an embedded document, a function from keys to values.
Obj(m) == [t |-> "object", v |-> m]

\* The segments of a dotted path: the pieces between the dots.
RECURSIVE PathFrom(_, _, _)
PathFrom(s, k, piece) ==
    IF k > Len(s) THEN <<piece>>
    ELSE IF s[k] = "." THEN <<piece>> \o PathFrom(s, k + 1, <<>>)
    ELSE PathFrom(s, k + 1, Append(piece, s[k]))
PathOf(field) == PathFrom(field, 1, <<>>)

\* { [`updateDescription.updatedFields.${field}`]: { $exists: true } } on the
\* document updatedFields: the server reads the dots of the interpolated name
\* as steps into embedded documents, like those of the path before it.
RECURSIVE PathExists(_, _)
PathExists(doc, segments) ==
    /\ Head(segments) \in DOMAIN doc
    /\ \/ Len(segments) = 1
       \/ /\ doc[Head(segments)].t = "object"
          /\ PathExists(doc[Head(segments)].v, Tail(segments))

\* Does the event satisfy one $match stage on the server?
StageMatches(st, change) ==
    IF st.stage = "operationTypeIn"
    THEN change.operationType \in st.ops
    ELSE \/ change.operationType # "update"
         \/ /\ change.operationType = "update"
            /\ IsDefined(change.updateDescription)
            /\ IsDefined(Get(change.updateDescription).updatedFields)
            /\ \E k \in 1..Len(st.fieldList) :
                  PathExists(Get(Get(change.updateDescription).updatedFields),
                             PathOf(st.fieldList[k]))

\* The stages narrow in sequence: the server delivers what passes them all.
PipelineMatches(pipeline, change) ==
    \A k \in 1..Len(pipeline) : StageMatches(pipeline[k], change)

\* --------------------------------------------------------- event normalizer
\* A wall-clock time is a count of milliseconds; InvalidDate is the Date whose
\* time value is NaN (toISOString throws a RangeError on it).
InvalidDate == -1
ToISOString(ms) == [iso |-> ms]

\* new Date(wallTime || Date.now()).toISOString() throws
FormatThrows(change) == change.wallTime = Some(InvalidDate)

\* change.updateDescription?.updatedFields || {}
UpdatedFieldsOf(change) ==
    IF IsDefined(change.updateDescription)
    THEN OrElse(Get(change.updateDescription).updatedFields, NoFields)
    ELSE NoFields

\* change.updateDescription?.removedFields || []
RemovedFieldsOf(change) ==
    IF IsDefined(change.updateDescription)
    THEN OrElse(Get(change.updateDescription).removedFields, <<>>)
    ELSE <<>>

\* ('documentKey' in change) ? change.documentKey?._id?.toString() : undefined
\* toString of an id is the string value of it.
IdToString(id) == Str(id.v)
DocumentIdOf(change) ==
    IF IsDefined(change.documentKey) /\ IsDefined(Get(change.documentKey)._id)
    THEN Some(IdToString(Get(Get(change.documentKey)._id)))
    ELSE Undefined

\* Mutant: the `break` of the delete case missing, the case falls through to
\* the default.
OperationFieldsNoBreak(change) ==
    CASE change.operationType = "insert" ->
           [document |-> OrElse(change.fullDocument, EmptyObject)]
      [] change.operationType = "update" ->
           IF IsDefined(change.fullDocument)
           THEN [modifiedFields |-> UpdatedFieldsOf(change),
                 removedFields |-> RemovedFieldsOf(change),
                 documentAfterUpdate |-> Get(change.fullDocument)]
           ELSE [modifiedFields |-> UpdatedFieldsOf(change),
                 removedFields |-> RemovedFieldsOf(change)]
      [] change.operationType = "replace" ->
           [documentAfterReplace |-> OrElse(change.fullDocument, EmptyObject)]
      [] change.operationType = "drop" -> <<>>
      [] change.operationType = "rename" ->
           [newCollection |-> IF IsDefined(change.to) THEN Get(change.to).coll
                              ELSE Undefined]
      [] OTHER -> [details |-> change]

\* The operation-specific properties added by the switch.
OperationFields(change) ==
    CASE change.operationType = "insert" ->
           [document |-> OrElse(change.fullDocument, EmptyObject)]
      [] change.operationType = "update" ->
           IF IsDefined(change.fullDocument)
           THEN [modifiedFields |-> UpdatedFieldsOf(change),
                 removedFields |-> RemovedFieldsOf(change),
                 documentAfterUpdate |-> Get(change.fullDocument)]
           ELSE [modifiedFields |-> UpdatedFieldsOf(change),
                 removedFields |-> RemovedFieldsOf(change)]
      [] change.operationType = "replace" ->
           [documentAfterReplace |-> OrElse(change.fullDocument, EmptyObject)]
      [] change.operationType = "delete" -> <<>>
      [] change.operationType = "drop" -> <<>>
      [] change.operationType = "rename" ->
           [newCollection |-> IF IsDefined(change.to) THEN Get(change.to).coll
                              ELSE Undefined]
      [] OTHER -> [details |-> change]

\* formatChangeOutput(change), for an event on which it does not throw; now is
\* the value of Date.now(), database and collectionName the node parameters.
formatChangeOutput(change, now, database, collectionName) ==
    [operation |-> change.operationType,
     timestamp |-> ToISOString(OrElse(change.wallTime, now)),
     database |-> IF IsDefined(change.ns) THEN OrElse(Get(change.ns).db, database)
                  ELSE database,
     collection |-> IF IsDefined(change.ns) THEN OrElse(Get(change.ns).coll, collectionName)
                    ELSE collectionName,
     documentId |-> DocumentIdOf(change)]
    @@ OperationFields(change)

\* ------------------------------------------------------ client-side filter
\* The filter as the specification words it: every condition holds, a
\* condition on a field that did not change never does.
ConditionSatisfied(filter, changedFields) ==
    /\ filter.field \in DOMAIN changedFields
    /\ filter.operator = "equal" => changedFields[filter.field] = Str(filter.value)
    /\ filter.operator = "notEqual" => changedFields[filter.field] # Str(filter.value)
EveryConditionSatisfied(filters, changedFields) ==
    \A k \in 1..Len(filters) : ConditionSatisfied(filters[k], changedFields)

\* The callback of filters.every(...)
ConditionMet(filter, updatedFields) ==
    IF filter.field \notin DOMAIN updatedFields THEN FALSE
    ELSE CASE filter.operator = "equal" -> updatedFields[filter.field] = Str(filter.value)
           [] filter.operator = "notEqual" -> updatedFields[filter.field] # Str(filter.value)
           [] OTHER -> FALSE

\* Mutant: filters.some(...) in place of filters.every(...).
someConditionMet(filters, updatedFields) ==
    \E k \in 1..Len(filters) : ConditionMet(filters[k], updatedFields)

\* filters.every(filter => ...)
allConditionsMet(filters, updatedFields) ==
    \A k \in 1..Len(filters) : ConditionMet(filters[k], updatedFields)

\* Mutant: the test `change.operationType === 'update'` dropped, the filters
\* applied to every event.
ShouldEmitAnyOperation(filters, change) ==
    IF Len(filters) > 0
    THEN allConditionsMet(filters, UpdatedFieldsOf(change))
    ELSE TRUE

\* Does the listener call this.emit for the event?
ShouldEmit(filters, change) ==
    IF Len(filters) > 0 /\ change.operationType = "update"
    THEN allConditionsMet(filters, UpdatedFieldsOf(change))
    ELSE TRUE

\* ------------------------------------------------------------ the inputs
\* Node parameters a run may be started with.
CfgPool ==
    { Config("shop", "orders", Wildcard, AllOperationTypes,
             <<Filter(FStatus, "equal", "done")>>),
      Config("shop", "orders", <<"s", ",", " ", "p">>, {"insert", "update"}, <<>>),
      Config("not authorized", "orders", Wildcard, AllOperationTypes,
             <<Filter(FStatus, "notEqual", "done"), Filter(FPrio, "equal", "1")>>) }

Ns == Some([db |-> Some("shop"), coll |-> Some("orders")])
Key(id) == Some([_id |-> Some(id)])
Update(fields) == Some([updatedFields |-> Some(fields), removedFields |-> Undefined])

\* Change events the server may push.
EventPool ==
    { ChangeEvent("insert", Some(1), Ns, Key(Num("1")),
                  Some({<<"status", Str("new")>>}), Undefined, Undefined),
      ChangeEvent("update", Some(2), Ns, Key(Num("1")), Undefined,
                  Update((FStatus :> Str("done")) @@ (FPrio :> Str("1"))), Undefined),
      ChangeEvent("update", Undefined, Undefined, Key(Str("a")), Undefined,
                  Update(FStatus :> Str("pending")), Undefined),
      ChangeEvent("insert", Some(InvalidDate), Ns, Key(Num("2")),
                  Undefined, Undefined, Undefined) }

\* Values Date.now() may return.
Clock == {5, 6}

\* ------------------------------------------------------------------ state
VARIABLES
    cfg,            \* the node parameters
    pc,             \* where trigger() stands: idle, connecting, pinging, listing,
                    \* watching (it returned the handle) or failed (it threw)
    surfaced,       \* the error trigger() threw to the host, or NoError
    handle,         \* TRUE once trigger() returned { closeFunction }
    connState,      \* the MongoClient: none, open, closing, closed
    streamState,    \* the ChangeStream: none, open, failed, closing, closed
    listeners,      \* the events of the ChangeStream a listener is registered for
    watchCount,     \* calls of collection.watch()
    pipeline,       \* the pipeline given to collection.watch()
    probes,         \* outcome of the connect, the ping and the collection lookup,
                    \* and the error the driver rejected the failing one with
    received,       \* the events the 'change' listener was called with, in order
    emitted,        \* the arguments of the calls of this.emit, in order
    cb,             \* the running 'change' listener: its position and locals
    running,        \* the task on the JavaScript thread: none or callback
    escaped,        \* indexes in received of the events whose error left the listener
    td,             \* the invocations of closeFunction
    transportFailed,\* TRUE once the ChangeStream raised its 'error' event
    hostNotified    \* TRUE once the host was told of a stream failure

vars == <<cfg, pc, surfaced, handle, connState, streamState, listeners, watchCount,
          pipeline, probes, received, emitted, cb, running, escaped, td,
          transportFailed, hostNotified>>

startVars == <<pc, surfaced, handle, probes, watchCount, pipeline, listeners>>
eventVars == <<received, emitted, cb, escaped>>
failVars == <<transportFailed, hostNotified>>

Invocations == 1..MaxInvocations
IdleListener == [pc |-> "idle", change |-> Undefined, output |-> Undefined]
NotInvoked == [pc |-> "none", stream |-> "none", client |-> "none",
               firstStream |-> FALSE, firstClient |-> FALSE]

Init ==
    /\ cfg \in CfgPool
    /\ pc = "idle"
    /\ surfaced = NoError
    /\ handle = FALSE
    /\ connState = "none"
    /\ streamState = "none"
    /\ listeners = {}
    /\ watchCount = 0
    /\ pipeline = <<>>
    /\ probes = [connect |-> "none", ping |-> "none", list |-> "none", error |-> NoError]
    /\ received = <<>>
    /\ emitted = <<>>
    /\ cb = IdleListener
    /\ running = "none"
    /\ escaped = {}
    /\ td = [i \in Invocations |-> NotInvoked]
    /\ transportFailed = FALSE
    /\ hostNotified = FALSE

\* ---------------------------------------------------------------- trigger()
\* trigger() throws: the error goes to the host and no handle is returned.
Throw(error) ==
    /\ pc' = "failed"
    /\ surfaced' = error

\* getCredentials, the parameters, new MongoClient(uri), client.connect() called
Start ==
    /\ pc = "idle" /\ running = "none"
    /\ \E credentials \in BOOLEAN :
          IF credentials
          THEN pc' = "connecting" /\ surfaced' = surfaced
          ELSE Throw(NodeApiError(Undefined, Msg(TNoCredentials, <<>>)))
    /\ UNCHANGED <<cfg, handle, connState, streamState, listeners, watchCount, pipeline,
                   probes, eventVars, running, td, failVars>>

\* client.connect() resolved: db.command({ ping: 1 }) is called
ConnectResolved ==
    /\ pc = "connecting" /\ running = "none"
    /\ connState' = "open"
    /\ probes' = [probes EXCEPT !.connect = "ok"]
    /\ pc' = "pinging"
    /\ UNCHANGED <<cfg, surfaced, handle, streamState, listeners, watchCount, pipeline,
                   eventVars, running, td, failVars>>

\* client.connect() rejected
ConnectRejected ==
    /\ pc = "connecting" /\ running = "none"
    /\ \E error \in DriverErrors :
          /\ Throw(ConnectCatch(error))
          /\ probes' = [probes EXCEPT !.connect = "failed", !.error = error]
    /\ UNCHANGED <<cfg, handle, connState, streamState, listeners, watchCount, pipeline,
                   eventVars, running, td, failVars>>

\* the ping resolved: db.listCollections({ name }).toArray() is called
PingResolved ==
    /\ pc = "pinging" /\ running = "none"
    /\ probes' = [probes EXCEPT !.ping = "ok"]
    /\ pc' = "listing"
    /\ UNCHANGED <<cfg, surfaced, handle, connState, streamState, listeners, watchCount,
                   pipeline, eventVars, running, td, failVars>>

\* Mutant: the catch of the ping notes the error and goes on to the lookup.
PingRejectedIgnored ==
    /\ pc = "pinging" /\ running = "none"
    /\ \E error \in DriverErrors :
          probes' = [probes EXCEPT !.ping = IF IsAuthorizationFailure(error)
                                            THEN "unauthorized" ELSE "failed",
                                   !.error = error]
    /\ pc' = "listing"
    /\ UNCHANGED <<cfg, surfaced, handle, connState, streamState, listeners, watchCount,
                   pipeline, eventVars, running, td, failVars>>

\* the ping rejected: inner catch, then the outer catch
PingRejected ==
    /\ pc = "pinging" /\ running = "none"
    /\ \E error \in DriverErrors :
          /\ Throw(OuterCatch(PingCatch(error, cfg.database)))
          /\ probes' = [probes EXCEPT !.ping = IF IsAuthorizationFailure(error)
                                               THEN "unauthorized" ELSE "failed",
                                      !.error = error]
    /\ UNCHANGED <<cfg, handle, connState, streamState, listeners, watchCount, pipeline,
                   eventVars, running, td, failVars>>

\* collection.watch(pipeline), changeStream.on('change', ...), return { closeFunction }
Watch ==
    /\ pipeline' = BuildPipeline(cfg)
    /\ watchCount' = watchCount + 1
    /\ streamState' = "open"
    /\ listeners' = listeners \cup {"change"}
    /\ handle' = TRUE
    /\ pc' = "watching"
    /\ surfaced' = surfaced

\* Mutant: the lookup's result is not looked at.
ListResolvedUnchecked ==
    /\ pc = "listing" /\ running = "none"
    /\ \E length \in {0, 1} :
          /\ probes' = [probes EXCEPT !.list = IF length = 0 THEN "empty" ELSE "ok"]
          /\ Watch
    /\ UNCHANGED <<cfg, connState, eventVars, running, td, failVars>>

\* the lookup resolved with the matching collections
ListResolved ==
    /\ pc = "listing" /\ running = "none"
    /\ \E length \in {0, 1} :
          /\ probes' = [probes EXCEPT !.list = IF length = 0 THEN "empty" ELSE "ok"]
          /\ IF length = 0
             THEN /\ Throw(OuterCatch(ListCatch(ZeroMatchError(cfg.database, cfg.collectionName),
                                                cfg.database, cfg.collectionName)))
                  /\ UNCHANGED <<handle, streamState, listeners, watchCount, pipeline>>
             ELSE Watch
    /\ UNCHANGED <<cfg, connState, eventVars, running, td, failVars>>

\* the lookup rejected
ListRejected ==
    /\ pc = "listing" /\ running = "none"
    /\ \E error \in DriverErrors :
          /\ Throw(OuterCatch(ListCatch(error, cfg.database, cfg.collectionName)))
          /\ probes' = [probes EXCEPT !.list = IF IsAuthorizationFailure(error)
                                               THEN "unauthorized" ELSE "failed",
                                      !.error = error]
    /\ UNCHANGED <<cfg, handle, connState, streamState, listeners, watchCount, pipeline,
                   eventVars, running, td, failVars>>

\* ------------------------------------------------------ the 'change' listener
\* Mutant: the listener is called for an event while it still works on the
\* one before, as with a listener that awaits.
ChangeArrivesReentrant(change) ==
    /\ streamState = "open"
    /\ "change" \in listeners
    /\ Len(received) < MaxEvents
    /\ PipelineMatches(pipeline, change)
    /\ received' = Append(received, change)
    /\ cb' = [pc |-> "format", change |-> Some(change), output |-> Undefined]
    /\ running' = "callback"
    /\ UNCHANGED <<cfg, startVars, connState, streamState, emitted, escaped, td, failVars>>

\* The open stream delivers an event that passed the pipeline: the listener is
\* called with it.
ChangeArrives(change) ==
    /\ streamState = "open" /\ running = "none"
    /\ "change" \in listeners
    /\ Len(received) < MaxEvents
    /\ PipelineMatches(pipeline, change)
    /\ received' = Append(received, change)
    /\ cb' = [pc |-> "format", change |-> Some(change), output |-> Undefined]
    /\ running' = "callback"
    /\ UNCHANGED <<cfg, startVars, connState, streamState, emitted, escaped, td, failVars>>

\* const formattedOutput = formatChangeOutput(change).  Nothing in the listener
\* catches: when it throws, the error leaves the listener into the driver,
\* and whether the stream then goes on is the driver's affair.
ChangeFormat ==
    /\ running = "callback" /\ cb.pc = "format"
    /\ IF FormatThrows(Get(cb.change))
       THEN /\ escaped' = escaped \cup {Len(received)}
            /\ cb' = IdleListener
            /\ running' = "none"
            /\ streamState' \in {streamState, "failed"}
       ELSE /\ \E now \in Clock :
                  cb' = [cb EXCEPT !.pc = "filter",
                                   !.output = Some(formatChangeOutput(Get(cb.change), now,
                                                       cfg.database, cfg.collectionName))]
            /\ UNCHANGED <<escaped, running, streamState>>
    /\ UNCHANGED <<cfg, startVars, connState, received, emitted, td, failVars>>

\* Mutant: the record is put in front of the earlier ones.
ChangeFilterEmitInFront ==
    /\ running = "callback" /\ cb.pc = "filter"
    /\ emitted' = IF ShouldEmit(cfg.filters, Get(cb.change))
                  THEN << << << [json |-> Get(cb.output)] >> >> >> \o emitted
                  ELSE emitted
    /\ cb' = IdleListener
    /\ running' = "none"
    /\ UNCHANGED <<cfg, startVars, connState, streamState, received, escaped, td, failVars>>

\* the filter and this.emit([[{ json: formattedOutput }]])
ChangeFilterEmit ==
    /\ running = "callback" /\ cb.pc = "filter"
    /\ emitted' = IF ShouldEmit(cfg.filters, Get(cb.change))
                  THEN Append(emitted, << << [json |-> Get(cb.output)] >> >>)
                  ELSE emitted
    /\ cb' = IdleListener
    /\ running' = "none"
    /\ UNCHANGED <<cfg, startVars, connState, streamState, received, escaped, td, failVars>>

\* The open stream loses its transport and raises 'error'.  The host hears of
\* it only through a listener for 'error'.
StreamFails ==
    /\ streamState = "open" /\ running = "none"
    /\ streamState' = "failed"
    /\ transportFailed' = TRUE
    /\ hostNotified' = ("error" \in listeners)
    /\ UNCHANGED <<cfg, startVars, connState, eventVars, running, td>>

\* ------------------------------------------------------------ closeFunction
\* Mutant: `changeStream.close(); await client.close();`, the first await dropped.
TeardownInvokeNoAwait(i) ==
    /\ handle /\ running = "none"
    /\ td[i].pc = "none"
    /\ \A j \in Invocations : j < i => td[j].pc # "none"
    /\ td' = [td EXCEPT ![i] = [@ EXCEPT !.pc = "awaitClient", !.stream = "pending",
                                        !.client = "pending",
                                        !.firstStream = streamState \in {"open", "failed"},
                                        !.firstClient = (connState = "open")]]
    /\ streamState' = IF streamState = "closed" THEN "closed" ELSE "closing"
    /\ connState' = IF connState = "closed" THEN "closed" ELSE "closing"
    /\ UNCHANGED <<cfg, startVars, eventVars, running, failVars>>

\* Mutant: closeFunction refuses a stream that is no longer open.
TeardownInvokeOnce(i) ==
    /\ handle /\ running = "none"
    /\ td[i].pc = "none"
    /\ \A j \in Invocations : j < i => td[j].pc # "none"
    /\ IF streamState \in {"open", "failed"}
       THEN /\ td' = [td EXCEPT ![i] = [@ EXCEPT !.pc = "awaitStream", !.stream = "pending",
                                                !.firstStream = TRUE]]
            /\ streamState' = "closing"
       ELSE /\ td' = [td EXCEPT ![i] = [@ EXCEPT !.pc = "threw"]]
            /\ streamState' = streamState
    /\ UNCHANGED <<cfg, startVars, connState, eventVars, running, failVars>>

\* Mutant: closeFunction closes the client alone, `await client.close();`.
TeardownInvokeClientOnly(i) ==
    /\ handle /\ running = "none"
    /\ td[i].pc = "none"
    /\ \A j \in Invocations : j < i => td[j].pc # "none"
    /\ td' = [td EXCEPT ![i] = [@ EXCEPT !.pc = "awaitClient", !.client = "pending",
                                        !.firstClient = (connState = "open")]]
    /\ connState' = IF connState = "closed" THEN "closed" ELSE "closing"
    /\ UNCHANGED <<cfg, startVars, streamState, eventVars, running, failVars>>

\* The host invokes closeFunction: changeStream.close() is called.  From the
\* call on the stream delivers nothing.  close() resolves once the stream is
\* closed, for every caller.
TeardownInvoke(i) ==
    /\ handle /\ running = "none"
    /\ td[i].pc = "none"
    /\ \A j \in Invocations : j < i => td[j].pc # "none"
    /\ td' = [td EXCEPT ![i] = [@ EXCEPT !.pc = "awaitStream", !.stream = "pending",
                                        !.firstStream = streamState \in {"open", "failed"}]]
    /\ streamState' = IF streamState = "closed" THEN "closed" ELSE "closing"
    /\ UNCHANGED <<cfg, startVars, connState, eventVars, running, failVars>>

\* `await changeStream.close()` resolved: client.close() is called.
TeardownStreamResolved(i) ==
    /\ td[i].pc = "awaitStream" /\ running = "none"
    /\ td' = [td EXCEPT ![i] = [@ EXCEPT !.pc = "awaitClient", !.stream = "ok",
                                        !.client = "pending",
                                        !.firstClient = (connState = "open")]]
    /\ streamState' = "closed"
    /\ connState' = IF connState = "closed" THEN "closed" ELSE "closing"
    /\ UNCHANGED <<cfg, startVars, eventVars, running, failVars>>

\* `await changeStream.close()` rejected: closeFunction rejects with the error.
\* Only the call that closes a stream not yet closed can fail.
TeardownStreamRejected(i) ==
    /\ td[i].pc = "awaitStream" /\ running = "none"
    /\ td[i].firstStream
    /\ td' = [td EXCEPT ![i] = [@ EXCEPT !.pc = "threw", !.stream = "err"]]
    /\ streamState' = "closed"
    /\ UNCHANGED <<cfg, startVars, connState, eventVars, running, failVars>>

\* `await client.close()` resolved: closeFunction resolves.
TeardownClientResolved(i) ==
    /\ td[i].pc = "awaitClient" /\ running = "none"
    /\ td' = [td EXCEPT ![i] = [@ EXCEPT !.pc = "done", !.client = "ok"]]
    /\ connState' = "closed"
    /\ UNCHANGED <<cfg, startVars, streamState, eventVars, running, failVars>>

\* `await client.close()` rejected: closeFunction rejects with the error.
TeardownClientRejected(i) ==
    /\ td[i].pc = "awaitClient" /\ running = "none"
    /\ td[i].firstClient
    /\ td' = [td EXCEPT ![i] = [@ EXCEPT !.pc = "threw", !.client = "err"]]
    /\ connState' = "closed"
    /\ UNCHANGED <<cfg, startVars, streamState, eventVars, running, failVars>>

\* ------------------------------------------------------------ specification
Next ==
    \/ Start
    \/ ConnectResolved
    \/ ConnectRejected
    \/ PingResolved
    \/ PingRejected
    \/ ListResolved
    \/ ListRejected
    \/ \E change \in EventPool : ChangeArrives(change)
    \/ ChangeFormat
    \/ ChangeFilterEmit
    \/ StreamFails
    \/ \E i \in Invocations : TeardownInvoke(i)
    \/ \E i \in Invocations : TeardownStreamResolved(i)
    \/ \E i \in Invocations : TeardownStreamRejected(i)
    \/ \E i \in Invocations : TeardownClientResolved(i)
    \/ \E i \in Invocations : TeardownClientRejected(i)

Spec == Init /\ [][Next]_vars

\* ------------------------------------------- the filter over all its inputs
\* A second specification: a start that succeeds, with every filter list of
\* at most MaxFilters conditions, and one update event with every map of
\* changed fields.
MaxFilters == 2
FieldNames == {FStatus, FPrio}
Conditions == { Filter(f, o, v) : f \in FieldNames, o \in {"equal", "notEqual"},
                                  v \in {"done", "1"} }
FilterLists == UNION { [1..n -> Conditions] : n \in 0..MaxFilters }
FilterCfgPool == { Config("shop", "orders", Wildcard, AllOperationTypes, fl) :
                   fl \in FilterLists }
ChangedValues == {Str("done"), Str("1"), Num("1")}
ChangedMaps == UNION { [D -> ChangedValues] : D \in SUBSET FieldNames }
UpdateEventPool ==
    { ChangeEvent("update", Some(2), Ns, Key(Num("1")), Undefined, Update(m), Undefined) :
      m \in ChangedMaps }
    \cup { ChangeEvent("update", Some(2), Ns, Key(Num("1")), Undefined, Undefined, Undefined) }

\* One event of every operation that is not an update, the last with a tag
\* the switch does not know.
RenameTarget == Some([coll |-> Some("archive")])
OtherEventPool ==
    { ChangeEvent("insert", Some(2), Ns, Key(Num("1")),
                  Some({<<"status", Str("done")>>}), Undefined, Undefined),
      ChangeEvent("replace", Some(2), Ns, Key(Num("1")),
                  Some({<<"status", Str("done")>>}), Undefined, Undefined),
      ChangeEvent("delete", Some(2), Ns, Key(Num("1")), Undefined, Undefined, Undefined),
      ChangeEvent("drop", Some(2), Ns, Undefined, Undefined, Undefined, Undefined),
      ChangeEvent("rename", Some(2), Ns, Undefined, Undefined, Undefined, RenameTarget),
      ChangeEvent("invalidate", Some(2), Undefined, Undefined, Undefined, Undefined,
                  Undefined) }

FilterInit ==
    /\ cfg \in FilterCfgPool
    /\ pc = "idle"
    /\ surfaced = NoError
    /\ handle = FALSE
    /\ connState = "none"
    /\ streamState = "none"
    /\ listeners = {}
    /\ watchCount = 0
    /\ pipeline = <<>>
    /\ probes = [connect |-> "none", ping |-> "none", list |-> "none", error |-> NoError]
    /\ received = <<>>
    /\ emitted = <<>>
    /\ cb = IdleListener
    /\ running = "none"
    /\ escaped = {}
    /\ td = [i \in Invocations |-> NotInvoked]
    /\ transportFailed = FALSE
    /\ hostNotified = FALSE

FirstChangeArrives(change) == received = <<>> /\ ChangeArrives(change)

FilterNext ==
    \/ Start
    \/ ConnectResolved
    \/ PingResolved
    \/ ListResolved
    \/ \E change \in UpdateEventPool : FirstChangeArrives(change)
    \/ \E change \in OtherEventPool : FirstChangeArrives(change)
    \/ ChangeFormat
    \/ ChangeFilterEmit

FilterSpec == FilterInit /\ [][FilterNext]_vars

\* ------------------------------------------ the pipeline over all its inputs
\* A third specification: a start that succeeds, with every set of operation
\* types and a text of monitored fields of every shape, the names it stands
\* for beside it.
FNested == <<"a", ".", "b">>
MonitoredPool ==
    { [text |-> Wildcard, names |-> {}],
      [text |-> <<"s">>, names |-> {FStatus}],
      [text |-> <<"p">>, names |-> {FPrio}],
      [text |-> <<"s", ",", "p">>, names |-> {FStatus, FPrio}],
      [text |-> <<" ", "s", " ", ",", " ", "p">>, names |-> {FStatus, FPrio}],
      [text |-> FNested, names |-> {FNested}] }
MonitoredNames(text) == (CHOOSE m \in MonitoredPool : m.text = text).names
PipelineCfgPool ==
    { Config("shop", "orders", m.text, ops, <<>>) :
      m \in MonitoredPool, ops \in SUBSET AllOperationTypes }

\* Update events as the server describes them: an update of the field b of the
\* embedded document a comes with the key "a.b" in updatedFields, a
\* replacement of the whole of a with the key "a".
PipelineUpdateMaps ==
    { FStatus :> Str("done"),
      FPrio :> Str("1"),
      (FStatus :> Str("done")) @@ (FPrio :> Str("1")),
      FNested :> Str("1"),
      <<"a">> :> Obj(<<"b">> :> Str("1")),
      NoFields }
PipelineEventPool ==
    { ChangeEvent("update", Some(2), Ns, Key(Num("1")), Undefined, Update(m), Undefined) :
      m \in PipelineUpdateMaps }
    \cup { ChangeEvent("update", Some(2), Ns, Key(Num("1")), Undefined, Undefined, Undefined) }
    \cup OtherEventPool

StartState ==
    /\ pc = "idle"
    /\ surfaced = NoError
    /\ handle = FALSE
    /\ connState = "none"
    /\ streamState = "none"
    /\ listeners = {}
    /\ watchCount = 0
    /\ pipeline = <<>>
    /\ probes = [connect |-> "none", ping |-> "none", list |-> "none", error |-> NoError]
    /\ received = <<>>
    /\ emitted = <<>>
    /\ cb = IdleListener
    /\ running = "none"
    /\ escaped = {}
    /\ td = [i \in Invocations |-> NotInvoked]
    /\ transportFailed = FALSE
    /\ hostNotified = FALSE

PipelineInit == cfg \in PipelineCfgPool /\ StartState

PipelineNext ==
    \/ Start
    \/ ConnectResolved
    \/ PingResolved
    \/ ListResolved
    \/ \E change \in PipelineEventPool : FirstChangeArrives(change)
    \/ ChangeFormat
    \/ ChangeFilterEmit

PipelineSpec == PipelineInit /\ [][PipelineNext]_vars

\* ------------------------------------------ the normalizer over all its inputs
\* A fourth specification: a start that succeeds with every operation type
\* watched, then one event of every shape the server sends: a document key on
\* the events about one document, a full document where the server may attach
\* one, an update description on updates, a target on renames; the wall time
\* present, absent or not a valid date, the namespace present or absent.
NormalizeCfgPool ==
    { Config("shop", "orders", Wildcard, AllOperationTypes, <<>>),
      Config("crm", "leads", Wildcard, AllOperationTypes, <<>>) }

DocumentOperations == {"insert", "update", "replace", "delete"}
OperationTags == AllOperationTypes \cup {"invalidate"}
WallTimes == {Undefined, Some(2), Some(InvalidDate)}
Removal == Some([updatedFields |-> Undefined, removedFields |-> Some(<<FPrio>>)])
NormalizeEventPool ==
    { ChangeEvent(op, wallTime, ns, documentKey, fullDocument, updateDescription, to) :
        op \in OperationTags,
        wallTime \in WallTimes,
        ns \in {Undefined, Ns},
        documentKey \in {Undefined, Key(Num("1")), Key(Str("a"))},
        fullDocument \in {Undefined, Some({<<"status", Str("done")>>})},
        updateDescription \in {Undefined, Update(FStatus :> Str("done")), Removal},
        to \in {Undefined, RenameTarget} }

\* The events of that shape the server does send.
ServerSends(change) ==
    /\ IsDefined(change.documentKey) <=> change.operationType \in DocumentOperations
    /\ IsDefined(change.fullDocument) => change.operationType \in {"insert", "update", "replace"}
    /\ change.operationType = "insert" => IsDefined(change.fullDocument)
    /\ IsDefined(change.updateDescription) <=> change.operationType = "update"
    /\ IsDefined(change.to) <=> change.operationType = "rename"

NormalizeInit == cfg \in NormalizeCfgPool /\ StartState

NormalizeNext ==
    \/ Start
    \/ ConnectResolved
    \/ PingResolved
    \/ ListResolved
    \/ \E change \in NormalizeEventPool : ServerSends(change) /\ FirstChangeArrives(change)
    \/ ChangeFormat
    \/ ChangeFilterEmit

NormalizeSpec == NormalizeInit /\ [][NormalizeNext]_vars

\* ==================================================================== claims

\* C1: when closing the change stream fails during teardown, the connection
\* close is still attempted.
C1_BothClosesAttempted ==
    \A i \in Invocations : td[i].stream = "err" => td[i].client # "none"

\* C2: a collection lookup that succeeds with zero matches makes start fail
\* with the "does not exist" error naming the collection, and no change stream
\* is opened.
C2_ZeroMatchesIsNotFound ==
    probes.list = "empty" =>
        /\ surfaced.message = Msg(TNotFound, <<cfg.collectionName, cfg.database>>)
        /\ watchCount = 0

\* C3: a failure of the connect, of the ping or of the collection lookup is
\* fatal to the start: an error is thrown to the host, no teardown handle is
\* returned, no change stream is opened and no change listener is registered.
StartFailed ==
    \/ probes.connect = "failed"
    \/ probes.ping \in {"unauthorized", "failed"}
    \/ probes.list \in {"empty", "unauthorized", "failed"}
C3_FailedStartLeavesNoSubscription ==
    StartFailed =>
        /\ pc = "failed"
        /\ surfaced.name = "NodeApiError"
        /\ ~handle
        /\ watchCount = 0
        /\ streamState = "none"
        /\ listeners = {}
        /\ received = <<>>
C3_Witness == probes.list = "empty" /\ pc = "failed" /\ connState = "open"

\* C4: the error of an event whose normalization fails does not leave the
\* listener: the event is dropped and the stream goes on.
C4_FailingEventIsDropped ==
    \A k \in 1..Len(received) : FormatThrows(received[k]) => k \notin escaped

\* C5: a transport failure of the change stream is reported to the host, the
\* watch ends, and no second change stream is opened.
C5_StreamFailureReported ==
    transportFailed => (hostNotified /\ streamState # "open" /\ watchCount <= 1)

\* C6: the connection close is started only after the change-stream close has
\* completed, in each invocation and in the run as a whole.
C6_StreamClosedBeforeConnection ==
    /\ \A i \in Invocations : td[i].client # "none" => td[i].stream = "ok"
    /\ connState \in {"closing", "closed"} => streamState = "closed"
C6_Witness == \E i \in Invocations : td[i].client = "pending" /\ td[i].stream = "ok"

\* C7: with closes that are idempotent, teardown is idempotent: an invocation
\* rejects only with the error of a close that was the first on its resource,
\* never because teardown was invoked before, and once every invocation made
\* has resolved the stream and the connection are closed, however many there were.
C7_TeardownIdempotent ==
    /\ \A i \in Invocations :
          td[i].pc = "threw" => \/ (td[i].stream = "err" /\ td[i].firstStream)
                                \/ (td[i].client = "err" /\ td[i].firstClient)
    /\ (td[1].pc = "done" /\ \A i \in Invocations : td[i].pc \in {"none", "done"})
          => (streamState = "closed" /\ connState = "closed")
C7_Witness == td[1].pc = "done" /\ td[2].pc = "done"

\* C8: the calls of emit are, in order, one batch of one record for each
\* received event that reached the filter and passed it, and nothing else.
Processed == IF cb.pc = "idle" THEN received ELSE SubSeq(received, 1, Len(received) - 1)
PassesFilter(change) ==
    /\ ~FormatThrows(change)
    /\ \/ change.operationType # "update"
       \/ EveryConditionSatisfied(cfg.filters, UpdatedFieldsOf(change))
PassingEvents == SelectSeq(Processed, PassesFilter)
IsBatchOf(call, change) ==
    /\ Len(call) = 1
    /\ Len(call[1]) = 1
    /\ \E now \in Clock :
          call[1][1] = [json |-> formatChangeOutput(change, now, cfg.database,
                                                    cfg.collectionName)]
C8_OneRecordPerMatchInOrder ==
    /\ Len(emitted) = Len(PassingEvents)
    /\ \A k \in 1..Len(emitted) : IsBatchOf(emitted[k], PassingEvents[k])
C8_Witness ==
    /\ cb.pc = "idle" /\ escaped = {}
    /\ Len(received) = MaxEvents /\ Len(emitted) = 2
    /\ emitted[1] # emitted[2]

\* C9: once closeFunction has called changeStream.close() no listener call
\* starts and nothing more is emitted; a teardown step never touches a
\* listener call, no step is taken by teardown while one runs, and the host can
\* invoke the handle whenever the thread is free, whatever events have come.
TeardownStarted == \E i \in Invocations : td[i].pc # "none"
C9_StopAndListener ==
    [][ /\ TeardownStarted => (received' = received /\ emitted' = emitted)
        /\ td' # td => cb' = cb
        /\ running = "callback" => td' = td
        /\ (handle /\ running = "none" /\ td[MaxInvocations].pc = "none")
              => ENABLED (\E i \in Invocations : TeardownInvoke(i)) ]_vars
C9_Witness ==
    /\ TeardownStarted /\ streamState = "closed"
    /\ Len(received) = 1 /\ Len(emitted) = 1

\* C10: an update event is emitted exactly when every filter condition holds:
\* an empty list always passes, a condition on a field absent from the changed
\* fields fails whatever its operator, Equal holds when the changed value
\* equals the condition's value and NotEqual when it differs.
C10_FilterSemantics ==
    (Len(received) = 1 /\ cb.pc = "idle" /\ received[1].operationType = "update") =>
        /\ Len(emitted) <= 1
        /\ Len(emitted) = 1 <=>
              EveryConditionSatisfied(cfg.filters, UpdatedFieldsOf(received[1]))
C10_Witness ==
    /\ Len(received) = 1 /\ cb.pc = "idle" /\ Len(emitted) = 1
    /\ Len(cfg.filters) = 2
    /\ cfg.filters[1].operator = "notEqual" /\ cfg.filters[2].operator = "equal"

\* C11: the client-side filter is applied to update events alone: a received
\* event of any other operation is emitted, one record, whatever the filter
\* list.
C11_OtherOperationsBypassFilter ==
    (Len(received) = 1 /\ cb.pc = "idle" /\ received[1].operationType # "update") =>
        /\ Len(emitted) = 1
        /\ \E now \in Clock :
              emitted[1] = << << [json |-> formatChangeOutput(received[1], now,
                                               cfg.database, cfg.collectionName)] >> >>
C11_Witness ==
    /\ Len(received) = 1 /\ cb.pc = "idle" /\ Len(emitted) = 1
    /\ received[1].operationType = "invalidate"
    /\ Len(cfg.filters) = 2

\* C12: a configuration with no operation type selected is refused: start
\* throws and no change stream is opened.
C12_EmptyOperationTypesRefused ==
    cfg.operationTypes = {} => (pc # "watching" /\ watchCount = 0)

\* C13: the pipeline has a stage on the operation type exactly when the
\* selected types are a non-empty strict subset of the six supported ones, and
\* the stage lets through the events of the selected types and no others.
OperationStages == { k \in 1..Len(pipeline) : pipeline[k].stage = "operationTypeIn" }
C13_OperationStage ==
    pc = "watching" =>
        /\ OperationStages # {} <=>
              (cfg.operationTypes # {} /\ cfg.operationTypes # AllOperationTypes)
        /\ Cardinality(OperationStages) <= 1
        /\ \A k \in OperationStages : \A change \in PipelineEventPool :
              StageMatches(pipeline[k], change) <=>
                  change.operationType \in cfg.operationTypes
C13_Witness ==
    /\ pc = "watching" /\ OperationStages # {}
    /\ cfg.operationTypes = {"insert", "rename"}
    /\ Len(received) = 1 /\ received[1].operationType = "rename"

\* C14: the pipeline has a stage on the fields exactly when the monitored
\* fields are not the wildcard and update is a selected type; the stage lets
\* through every event that is not an update, and an update exactly when one
\* of the monitored names is among its changed fields.
FieldStages == { k \in 1..Len(pipeline) : pipeline[k].stage = "updateTouchesField" }
C14_FieldStage ==
    pc = "watching" =>
        /\ FieldStages # {} <=>
              (cfg.fields # Wildcard /\ "update" \in cfg.operationTypes)
        /\ \A k \in FieldStages : \A change \in PipelineEventPool :
              StageMatches(pipeline[k], change) <=>
                  \/ change.operationType # "update"
                  \/ MonitoredNames(cfg.fields) \cap DOMAIN UpdatedFieldsOf(change) # {}

\* C15: an authorization failure of the ping is reported as not authorized for
\* the database, naming it; another failure of the ping as the database not
\* being accessible, with the text of the error; an authorization failure of
\* the lookup as not authorized to list; another failure of the lookup as the
\* failed verification, carrying the error; and the host gets that error of
\* the first failing probe as it is, not wrapped again.
AuthorizationErrors ==
    { DriverError("not authorized on shop to execute command", Some("Unauthorized")),
      DriverError("command failed", Some("Unauthorized")),
      DriverError("not authorized on shop to execute command", Undefined) }
PingFailed == probes.ping \in {"unauthorized", "failed"}
LookupFailed == probes.list \in {"unauthorized", "failed"}
C15_ProbeFailuresClassified ==
    /\ (PingFailed \/ LookupFailed) => (pc = "failed" /\ surfaced.name = "NodeApiError")
    /\ PingFailed => probes.list = "none"
    /\ (PingFailed /\ probes.error \in AuthorizationErrors) =>
          surfaced.message = Msg(TDbNotAuthorized, <<cfg.database>>)
    /\ (PingFailed /\ probes.error \notin AuthorizationErrors) =>
          surfaced.message = Msg(TDbNoAccess, <<cfg.database, probes.error.message.args[1]>>)
    /\ (LookupFailed /\ probes.error \in AuthorizationErrors) =>
          surfaced.message = Msg(TListNotAuthorized, <<cfg.database>>)
    /\ (LookupFailed /\ probes.error \notin AuthorizationErrors) =>
          /\ surfaced.message = Msg(TListFailed, <<cfg.collectionName>>)
          /\ surfaced.cause = Some(probes.error)
C15_Witness ==
    /\ probes.ping = "unauthorized" /\ pc = "failed"
    /\ probes.error = DriverError("command failed", Some("Unauthorized"))

\* C16: normalization returns for every change event, also one with a tag it
\* does not know, a record with operation, timestamp, database and collection;
\* an unknown tag gives details equal to the event, and database and collection
\* are the configured names when the event has no namespace.
KnownOperations == AllOperationTypes
Normalized(change, output) ==
    /\ {"operation", "timestamp", "database", "collection"} \subseteq DOMAIN output
    /\ output.operation = change.operationType
    /\ change.operationType \notin KnownOperations =>
          ("details" \in DOMAIN output /\ output.details = change)
    /\ ~IsDefined(change.ns) =>
          (output.database = cfg.database /\ output.collection = cfg.collectionName)
C16_NormalizationTotal ==
    (received # <<>> /\ cb.pc # "format") =>
        /\ escaped = {}
        /\ cb.pc = "filter" => Normalized(received[Len(received)], Get(cb.output))

\* C17: the ping is issued only after the connect succeeded, the lookup only
\* after the ping succeeded, the change stream is opened only after both
\* probes succeeded, and at most once.
C17_StartupOrder ==
    /\ (pc = "pinging" \/ probes.ping # "none") => probes.connect = "ok"
    /\ (pc = "listing" \/ probes.list # "none") => probes.ping = "ok"
    /\ watchCount >= 1 => (probes.ping = "ok" /\ probes.list = "ok")
    /\ watchCount <= 1
    /\ probes.connect = "failed" => (probes.ping = "none" /\ probes.list = "none")
C17_Witness == pc = "watching" /\ watchCount = 1 /\ probes.list = "ok"

\* C18: the record normalization returns has, beside the five base fields,
\* exactly the fields of its operation: document for an insert; modifiedFields
\* and removedFields (empty when the event has none) for an update, and
\* documentAfterUpdate only with a full document; documentAfterReplace for a
\* replace; nothing for a delete or a drop; newCollection for a rename; and
\* documentId is the string of the key of an event that has one, and absent
\* for a drop and a rename.
BaseFields == {"operation", "timestamp", "database", "collection", "documentId"}
SpecificFields(change) ==
    CASE change.operationType = "insert" -> {"document"}
      [] change.operationType = "update" ->
           {"modifiedFields", "removedFields"}
           \cup (IF IsDefined(change.fullDocument) THEN {"documentAfterUpdate"} ELSE {})
      [] change.operationType = "replace" -> {"documentAfterReplace"}
      [] change.operationType \in {"delete", "drop"} -> {}
      [] change.operationType = "rename" -> {"newCollection"}
      [] OTHER -> {"details"}
KeyString(change) == Str(Get(Get(change.documentKey)._id).v)
C18_OperationSpecificFields ==
    cb.pc = "filter" =>
        LET change == Get(cb.change)
            output == Get(cb.output)
        IN  /\ DOMAIN output = BaseFields \cup SpecificFields(change)
            /\ change.operationType = "insert" =>
                  output.document = Get(change.fullDocument)
            /\ change.operationType = "update" =>
                  /\ output.modifiedFields =
                        (IF Get(change.updateDescription) = Get(Removal)
                         THEN NoFields ELSE FStatus :> Str("done"))
                  /\ output.removedFields =
                        (IF Get(change.updateDescription) = Get(Removal)
                         THEN <<FPrio>> ELSE <<>>)
                  /\ IsDefined(change.fullDocument) =>
                        output.documentAfterUpdate = Get(change.fullDocument)
            /\ change.operationType = "rename" =>
                  output.newCollection = Get(change.to).coll
            /\ IsDefined(change.documentKey) =>
                  output.documentId = Some(KeyString(change))
            /\ change.operationType \in {"drop", "rename"} =>
                  output.documentId = Undefined
C18_Witness ==
    /\ cb.pc = "filter"
    /\ Get(cb.change).operationType = "delete"
    /\ DOMAIN Get(cb.output) = BaseFields
    /\ Get(cb.output).documentId = Some(Str("a"))

\* C19: the events of the stream are processed one after the other: the
\* listener is called for an event only when no call of it is in progress,
\* what a call works on is the event received last, and a record is emitted
\* only by the call for that event, without another event coming in.
C19_EventsProcessedSequentially ==
    /\ [](cb.pc # "idle" =>
            /\ running = "callback"
            /\ received # <<>>
            /\ cb.change = Some(received[Len(received)]))
    /\ [][ /\ received' # received => (cb.pc = "idle" /\ running = "none")
           /\ emitted' # emitted =>
                 /\ cb.pc = "filter"
                 /\ received' = received
                 /\ cb'.pc = "idle" ]_vars
C19_Witness ==
    /\ Len(received) = 2 /\ Len(emitted) = 1
    /\ cb.pc = "filter"
    /\ cb.change = Some(received[2])

\* C20: a start that fails after the connect succeeded has closed the
\* connection when the error reaches the host: the connection is open only
\* while the start validates, while the trigger watches and while it closes.
C20_FailedStartClosesConnection ==
    connState = "open" => pc \in {"pinging", "listing", "watching"}

====
